---- MODULE Spec2Model ----
(***************************************************************************)
(* Coins of Bengal (src/main.py): the record loader, the image indexer,    *)
(* the sidebar filter engine and the render pass of main, as a state       *)
(* machine.  Python strings that the code parses, splits or searches are   *)
(* sequences of one-character strings; the en-dash is the character named  *)
(* EnDash.                                                                 *)
(***************************************************************************)
EXTENDS Integers, Sequences, FiniteSets, TLC

VARIABLES
    \* convert_to_gregorian applied to one "Date of Issue" value
    date_of_issue, converted,
    \* match_images: the directory, and the position of its for loop
    folder_exists, listing, scan_pos, match_pc,
    \* the render pass of main
    pc, selection, data_cache, image_cache, coins_df, images_dict,
    filtered_df, messages, rendered, uncaught, calls, hits,
    load_runs, image_runs,
    \* sidebar_filters applied to one frame: the frame, the widget values, the result
    input_df, criteria, outcome

convVars == <<date_of_issue, converted>>
matchVars == <<folder_exists, listing, scan_pos, match_pc>>
passVars == <<pc, selection, data_cache, image_cache, coins_df, filtered_df,
              rendered, uncaught, calls, hits, load_runs, image_runs>>
filterVars == <<input_df, criteria, outcome>>
vars == <<convVars, matchVars, passVars, filterVars, images_dict, messages>>

(***************************************************************************)
(* Bounds of the model.                                                    *)
(***************************************************************************)
MaxLen == 4
MaxFiles == 3
MaxRecords == 2
MaxRuns == 2

(***************************************************************************)
(* Python values and strings.                                              *)
(***************************************************************************)
PyInt(n) == [type |-> "int", val |-> n]
PyStr(s) == [type |-> "str", val |-> s]
\* a float without a fraction, as pandas holds the years of a column with gaps
PyFloat(n) == [type |-> "float", val |-> n]

EnDash == "U+2013"
Unknown == <<"U", "n", "k", "n", "o", "w", "n">>
None == <<>>

Digits == <<"0", "1", "2", "3", "4", "5", "6", "7", "8", "9">>
UpperLetters == <<"A", "B", "C", "D", "E", "F", "G", "H", "I", "J", "K", "L", "M",
                  "N", "O", "P", "Q", "R", "S", "T", "U", "V", "W", "X", "Y", "Z">>
LowerLetters == <<"a", "b", "c", "d", "e", "f", "g", "h", "i", "j", "k", "l", "m",
                  "n", "o", "p", "q", "r", "s", "t", "u", "v", "w", "x", "y", "z">>

Range(s) == {s[i] : i \in DOMAIN s}
IndexOf(c, s) == CHOOSE i \in DOMAIN s : s[i] = c
DigitSet == Range(Digits)
UpperSet == Range(UpperLetters)
IsDigit(c) == c \in DigitSet
DigitVal(c) == IndexOf(c, Digits) - 1

\* str.lower()
LowerChar(c) == IF c \in UpperSet THEN LowerLetters[IndexOf(c, UpperLetters)] ELSE c
Lower(s) == [i \in DOMAIN s |-> LowerChar(s[i])]

\* sub in s
Contains(s, sub) ==
    \E i \in 0..(Len(s) - Len(sub)) : SubSeq(s, i + 1, i + Len(sub)) = sub

\* s.endswith(suffix)
EndsWith(s, suffix) ==
    /\ Len(s) >= Len(suffix)
    /\ SubSeq(s, Len(s) - Len(suffix) + 1, Len(s)) = suffix

\* s.strip(): leading and trailing white space removed
RECURSIVE LStrip(_)
LStrip(s) == IF s # <<>> /\ Head(s) = " " THEN LStrip(Tail(s)) ELSE s
RECURSIVE RStrip(_)
RStrip(s) == IF s # <<>> /\ s[Len(s)] = " " THEN RStrip(SubSeq(s, 1, Len(s) - 1)) ELSE s
Strip(s) == RStrip(LStrip(s))

RECURSIVE DigitsValue(_)
DigitsValue(s) ==
    IF s = <<>> THEN 0
    ELSE 10 * DigitsValue(SubSeq(s, 1, Len(s) - 1)) + DigitVal(s[Len(s)])

IsDigits(s) == s # <<>> /\ \A i \in DOMAIN s : IsDigit(s[i])

\* int(x): x itself for an int or a whole float; for a str the value of an
\* optionally signed decimal literal with white space around it, ValueError
\* otherwise
IntOfStr(s) ==
    LET t == Strip(s)
        signed == t # <<>> /\ Head(t) \in {"-", "+"}
        body == IF signed THEN Tail(t) ELSE t
    IN  IF ~IsDigits(body) THEN [raises |-> TRUE, val |-> 0]
        ELSE [raises |-> FALSE,
              val |-> IF signed /\ Head(t) = "-" THEN 0 - DigitsValue(body)
                      ELSE DigitsValue(body)]

int(x) ==
    IF x.type \in {"int", "float"} THEN [raises |-> FALSE, val |-> x.val] ELSE IntOfStr(x.val)

(***************************************************************************)
(* load_data: convert_to_gregorian.                                        *)
(***************************************************************************)
HijriThreshold == 1202
HijriOffset == 622

convert_to_gregorian_le(year) ==
    LET y == int(year)
    IN  IF y.raises THEN PyStr(Unknown)
        ELSE IF y.val <= HijriThreshold THEN PyInt(y.val + HijriOffset)
        ELSE PyInt(y.val)

convert_to_gregorian(year) ==
    LET y == int(year)
    IN  IF y.raises THEN PyStr(Unknown)
        ELSE IF y.val < HijriThreshold THEN PyInt(y.val + HijriOffset)
        ELSE PyInt(y.val)

(***************************************************************************)
(* match_images: the file names of the image directory.                    *)
(***************************************************************************)
images_folder == <<"d", "a", "t", "a", "/", "M", "u", "s", "l", "i", "m", " ",
                   "C", "o", "n", "q", "u", "e", "r", "o", "r", "s">>

\* os.path.join(folder, filename)
join(folder, filename) == folder \o <<"/">> \o filename

\* "12.3 Foo re.webp"
ReFile == <<"1", "2", ".", "3", " ", "F", "o", "o", " ", "r", "e", ".", "w", "e", "b", "p">>
\* "12.3 Foo RE .webp"
ReSpaceFile == <<"1", "2", ".", "3", " ", "F", "o", "o", " ", "R", "E", " ", ".", "w", "e", "b", "p">>
\* "12.3-Foo-re-back.webp"
HyphenFile == <<"1", "2", ".", "3", "-", "F", "o", "o", "-", "r", "e", "-", "b", "a", "c", "k",
                ".", "w", "e", "b", "p">>
\* "12.3 Foo.webp"
FrontFile == <<"1", "2", ".", "3", " ", "F", "o", "o", ".", "w", "e", "b", "p">>
\* "7.10_Bar.WEBP"
UpperExtFile == <<"7", ".", "1", "0", "_", "B", "a", "r", ".", "W", "E", "B", "P">>
\* "7.1 Bar re.webp"
OtherReFile == <<"7", ".", "1", " ", "B", "a", "r", " ", "r", "e", ".", "w", "e", "b", "p">>
\* "notes.txt"
TextFile == <<"n", "o", "t", "e", "s", ".", "t", "x", "t">>
\* "9 Baz re.webp"
NoMinorFile == <<"9", " ", "B", "a", "z", " ", "r", "e", ".", "w", "e", "b", "p">>

Filenames == {ReFile, ReSpaceFile, HyphenFile, FrontFile, UpperExtFile, OtherReFile,
              TextFile, NoMinorFile}

\* os.listdir: distinct names, in the order the scan meets them
Listings ==
    UNION {{s \in [1..n -> Filenames] : \A i, j \in 1..n : i # j => s[i] # s[j]} :
           n \in 0..MaxFiles}

\* the length of the longest run of digits of s that starts at position from
RECURSIVE DigitRun(_, _)
DigitRun(s, from) ==
    IF from <= Len(s) /\ IsDigit(s[from]) THEN 1 + DigitRun(s, from + 1) ELSE 0

WebpExt == <<".", "w", "e", "b", "p">>

\* re.compile(r"(\d+\.\d+)[_\s-]*.*\.webp$", re.IGNORECASE).match(filename):
\* whether it matches, and group(1)
PatternMatch(filename) ==
    LET major == DigitRun(filename, 1)
        dotted == major >= 1 /\ major + 1 <= Len(filename) /\ filename[major + 1] = "."
        minor == IF dotted THEN DigitRun(filename, major + 2) ELSE 0
        idLen == major + 1 + minor
        ok == /\ dotted
              /\ minor >= 1
              /\ Len(filename) >= idLen + Len(WebpExt)
              /\ EndsWith(Lower(filename), WebpExt)
    IN  [matched |-> ok, coin_no |-> IF ok THEN SubSeq(filename, 1, idLen) ELSE <<>>]

IsBack_cased(filename) ==
    \/ Contains(filename, <<" ", "r", "e", " ">>)
    \/ EndsWith(filename, <<" ", "r", "e", ".", "w", "e", "b", "p">>)
    \/ Contains(filename, <<" ", "r", "e", ".">>)

\* the test of line 166, on the file name
IsBack(filename) ==
    LET lower_name == Lower(filename)
    IN  \/ Contains(lower_name, <<" ", "r", "e", " ">>)
        \/ EndsWith(lower_name, <<" ", "r", "e", ".", "w", "e", "b", "p">>)
        \/ Contains(lower_name, <<" ", "r", "e", ".">>)

EmptyDict == <<>>
NoImages == [front |-> None, back |-> None]

MatchEntry_keepFirst(dict, folder, filename) ==
    LET m == PatternMatch(filename)
        coin_no == m.coin_no
        old == IF coin_no \in DOMAIN dict THEN dict[coin_no] ELSE NoImages
        path == join(folder, filename)
        new == IF IsBack(filename)
               THEN [old EXCEPT !.back = IF old.back = None THEN path ELSE old.back]
               ELSE [old EXCEPT !.front = IF old.front = None THEN path ELSE old.front]
    IN  IF ~m.matched THEN dict
        ELSE [k \in DOMAIN dict \cup {coin_no} |-> IF k = coin_no THEN new ELSE dict[k]]

\* one iteration of the for loop of match_images
MatchEntry(dict, folder, filename) ==
    LET m == PatternMatch(filename)
        coin_no == m.coin_no
        old == IF coin_no \in DOMAIN dict THEN dict[coin_no] ELSE NoImages
        path == join(folder, filename)
        new == IF IsBack(filename) THEN [old EXCEPT !.back = path]
               ELSE [old EXCEPT !.front = path]
    IN  IF ~m.matched THEN dict
        ELSE [k \in DOMAIN dict \cup {coin_no} |-> IF k = coin_no THEN new ELSE dict[k]]

RECURSIVE ScanFiles(_, _, _)
ScanFiles(dict, folder, files) ==
    IF files = <<>> THEN dict
    ELSE ScanFiles(MatchEntry(dict, folder, Head(files)), folder, Tail(files))

\* match_images(images_folder): the returned dict and the error it shows
match_images(exists, folder, files) ==
    IF ~exists THEN [dict |-> EmptyDict, msgs |-> {"Error: Image folder not found"}]
    ELSE [dict |-> ScanFiles(EmptyDict, folder, files), msgs |-> {}]

(***************************************************************************)
(* load_data: the rows of coins.csv and their cleaning.  Ruler and Metal   *)
(* are compared only for equality and are plain strings; an empty cell is  *)
(* read as NaN ("NaN" in a string column, the empty text elsewhere).       *)
(***************************************************************************)
NaN == "NaN"
EmptyCell == <<>>

Reign1250 == <<"1", "2", "5", "0", EnDash, "1", "2", "7", "0">>
Reign1265 == <<"1", "2", "6", "5", EnDash, "1", "2", "8", "0">>
ReignCirca == <<"c", ".", "1", "2", "0", "0", EnDash, "1", "2", "1", "0">>

CsvRows ==
    { [Ruler |-> "Ikhtiyar Khilji", Reign |-> Reign1250, Metal |-> "Silver",
       Weight |-> <<"2">>, Date |-> <<"1", "1", "0", "0">>],
      [Ruler |-> "Ali Mardan", Reign |-> Reign1265, Metal |-> "Gold",
       Weight |-> <<"2">>, Date |-> <<"1", "2", "5", "0">>],
      [Ruler |-> NaN, Reign |-> EmptyCell, Metal |-> "Silver",
       Weight |-> EmptyCell, Date |-> EmptyCell],
      [Ruler |-> "Ali Mardan", Reign |-> ReignCirca, Metal |-> "Gold",
       Weight |-> <<"x">>, Date |-> <<"c", ".", "7", "0", "0">>] }

\* coins.csv: up to MaxRecords distinct rows, in any order
CsvFiles ==
    UNION {{s \in [1..n -> CsvRows] : \A i, j \in 1..n : i # j => s[i] # s[j]} :
           n \in 0..MaxRecords}

\* pd.to_numeric(errors="coerce") followed by fillna(0), on whole-gram weights
to_numeric_fill0(cell) ==
    LET v == IntOfStr(cell) IN IF v.raises THEN 0 ELSE v.val

fillna_unknown(cell) == IF cell = EmptyCell THEN Unknown ELSE cell

CleanRow(row) ==
    [Ruler |-> IF row.Ruler = NaN THEN "Unknown" ELSE row.Ruler,
     Reign |-> fillna_unknown(row.Reign),
     Metal |-> IF row.Metal = NaN THEN "Unknown" ELSE row.Metal,
     Weight |-> to_numeric_fill0(row.Weight),
     Date |-> convert_to_gregorian(PyStr(fillna_unknown(row.Date)))]

\* the try block of load_data on a downloaded coins.csv
ReadCsv(csv) == [i \in DOMAIN csv |-> CleanRow(csv[i])]

EmptyDataFrame == <<>>
LoadError == "Error loading data from Kaggle"
LoadInfo == "Make sure you have a valid kaggle.json file"
ImageError == "Error downloading or unzipping image dataset"

(***************************************************************************)
(* st.cache_data: the entry of a function without arguments holds the      *)
(* returned value and the elements the body showed, replayed on a hit.     *)
(***************************************************************************)
EmptyCache == [has |-> FALSE, value |-> <<>>, msgs |-> {}]

CacheStore_okOnly(value, msgs) ==
    IF msgs = {} THEN [has |-> TRUE, value |-> value, msgs |-> msgs] ELSE EmptyCache

CacheStore(value, msgs) == [has |-> TRUE, value |-> value, msgs |-> msgs]

(***************************************************************************)
(* sidebar_filters.                                                        *)
(***************************************************************************)
Min(S) == CHOOSE x \in S : \A y \in S : x <= y
Max(S) == CHOOSE x \in S : \A y \in S : x >= y

HasDash(y) == EnDash \in Range(y)

\* y.split(EnDash)[0]
RECURSIVE BeforeDash(_)
BeforeDash(y) ==
    IF y = <<>> \/ Head(y) = EnDash THEN <<>> ELSE <<Head(y)>> \o BeforeDash(Tail(y))

\* int(y.split(EnDash)[0]), tabulated over the Reign values of the cleaned rows
ReignValues == {fillna_unknown(row.Reign) : row \in CsvRows}
StartYearOf == [y \in ReignValues |-> IntOfStr(BeforeDash(y))]
StartYear(y) == StartYearOf[y]

Rows(df) == Range(df)
\* df["Reign"].unique()
Reigns(df) == {r.Reign : r \in Rows(df)}
\* line 186: the ValueError of the list comprehension, and its value
YearsRaise(df) == \E y \in Reigns(df) : HasDash(y) /\ StartYear(y).raises
Years(df) == {StartYear(y).val : y \in {z \in Reigns(df) : HasDash(z)}}

Weights(df) == {r.Weight : r \in Rows(df)}

\* the values the model lets the reign slider take
YearMarks == {1250, 1260, 1265}

NoRange == <<>>
NoCriteria == [ruler |-> "All", metals |-> {"All"}, years |-> NoRange, weight |-> NoRange]

\* the default values of the four widgets (lines 177, 180, 194, 202)
DefaultCriteria(df) ==
    [ruler |-> "All", metals |-> {"All"},
     years |-> IF Years(df) = {} THEN NoRange ELSE <<Min(Years(df)), Max(Years(df))>>,
     weight |-> <<0, Max(Weights(df))>>]

\* every value the widgets can return for df; the widgets after line 186 do
\* not exist when it raises
WidgetChoices(df) ==
    IF df = EmptyDataFrame THEN {NoCriteria}
    ELSE LET rulers == {"All"} \cup {r.Ruler : r \in Rows(df)}
             metals == SUBSET ({"All"} \cup {r.Metal : r \in Rows(df)})
             ymarks == IF YearsRaise(df) \/ Years(df) = {} THEN {}
                       ELSE {y \in YearMarks \cup Years(df) :
                               Min(Years(df)) <= y /\ y <= Max(Years(df))}
             yranges == IF ymarks = {} THEN {NoRange}
                        ELSE {<<lo, hi>> : lo \in ymarks, hi \in ymarks}
             wmarks == Weights(df) \cup {0}
             wranges == IF YearsRaise(df) THEN {NoRange}
                        ELSE {<<lo, hi>> : lo \in wmarks, hi \in wmarks}
         IN  {[ruler |-> r, metals |-> m, years |-> y, weight |-> w] :
                r \in rulers, m \in metals,
                y \in {yr \in yranges : yr = NoRange \/ yr[1] <= yr[2]},
                w \in {wr \in wranges : wr = NoRange \/ wr[1] <= wr[2]}}

\* lines 177-223: the body of sidebar_filters for a frame that is not empty
ApplyFilters(df, crit) ==
    IF YearsRaise(df) THEN [status |-> "ValueError", rows |-> EmptyDataFrame]
    ELSE LET KeepRuler(r) == crit.ruler = "All" \/ r.Ruler = crit.ruler
             KeepMetal(r) == "All" \in crit.metals \/ r.Metal \in crit.metals
             KeepReign(r) == /\ crit.years[1] <= StartYear(r.Reign).val
                             /\ StartYear(r.Reign).val <= crit.years[2]
             KeepWeight(r) == crit.weight[1] <= r.Weight /\ r.Weight <= crit.weight[2]
             byRuler == SelectSeq(df, KeepRuler)
             byMetal == SelectSeq(byRuler, KeepMetal)
             reignOn == Years(df) # {}
             reignRaises == reignOn /\ \E r \in Rows(byMetal) : StartYear(r.Reign).raises
             byReign == IF reignOn THEN SelectSeq(byMetal, KeepReign) ELSE byMetal
         IN  IF reignRaises THEN [status |-> "ValueError", rows |-> EmptyDataFrame]
             ELSE [status |-> "ok", rows |-> SelectSeq(byReign, KeepWeight)]

sidebar_filters_unguarded(df, crit) ==
    IF df = EmptyDataFrame THEN [status |-> "KeyError", rows |-> EmptyDataFrame]
    ELSE ApplyFilters(df, crit)

\* sidebar_filters(df) with the widgets returning crit: the returned frame, or
\* the exception that leaves the function
sidebar_filters(df, crit) ==
    IF df = EmptyDataFrame THEN [status |-> "ok", rows |-> EmptyDataFrame]
    ELSE ApplyFilters(df, crit)

(***************************************************************************)
(* main: the pages and the call main makes to each.                        *)
(***************************************************************************)
Pages == {"Home", "Data", "Visualizations", "Coin Catalog", "Kaggle Connection Test"}
DataViews == {"Data", "Visualizations", "Coin Catalog"}

\* pages[selection]
PageFunction(page) ==
    CASE page = "Home" -> "landing_page"
      [] page = "Data" -> "display_data"
      [] page = "Visualizations" -> "display_visualizations"
      [] page = "Coin Catalog" -> "display_coins_with_images"
      [] page = "Kaggle Connection Test" -> "test_kaggle_connection"

\* the number of parameters of each page function (lines 18, 227, 236, 319, 365)
Parameters(fn) ==
    CASE fn = "landing_page" -> 0
      [] fn = "display_data" -> 1
      [] fn = "display_visualizations" -> 1
      [] fn = "display_coins_with_images" -> 2
      [] fn = "test_kaggle_connection" -> 0

DataViewFunctions == {PageFunction(p) : p \in DataViews}

NoDataWarning == "No data available based on current filter selection."
ImageDirWarning == "Ensure image directory has been downloaded."

\* a call of fn with nargs positional arguments: the page it renders, or TypeError
CallPage(page, nargs) ==
    IF Parameters(PageFunction(page)) = nargs
    THEN [rendered |-> page, uncaught |-> "none"]
    ELSE [rendered |-> "none", uncaught |-> "TypeError"]

\* the image directories the download can leave behind
DownloadedListings == {<<>>, <<FrontFile>>, <<FrontFile, ReFile>>}

(***************************************************************************)
(* The render pass of main: one script run per user interaction.           *)
(***************************************************************************)
PassInit ==
    /\ pc = "idle"
    /\ selection = "Home"
    /\ data_cache = EmptyCache
    /\ image_cache = EmptyCache
    /\ coins_df = EmptyDataFrame
    /\ filtered_df = EmptyDataFrame
    /\ rendered = "none"
    /\ uncaught = "none"
    /\ calls = <<>>
    /\ hits = {}
    /\ load_runs = 0
    /\ image_runs = 0

\* lines 389-402: a rerun of the script, up to the navigation radio
StartPass ==
    /\ pc \in {"idle", "done", "crashed"}
    /\ \E sel \in Pages : selection' = sel
    /\ pc' = "navigated"
    /\ coins_df' = EmptyDataFrame
    /\ images_dict' = EmptyDict
    /\ filtered_df' = EmptyDataFrame
    /\ messages' = {}
    /\ rendered' = "none"
    /\ uncaught' = "none"
    /\ calls' = <<>>
    /\ hits' = {}
    /\ UNCHANGED <<data_cache, image_cache, load_runs, image_runs, convVars, matchVars, filterVars>>

\* line 405, load_data() served by st.cache_data
LoadDataHit ==
    /\ pc = "navigated"
    /\ data_cache.has
    /\ coins_df' = data_cache.value
    /\ messages' = messages \cup data_cache.msgs
    /\ hits' = hits \cup {"load_data"}
    /\ calls' = Append(calls, "load_data")
    /\ pc' = "loaded"
    /\ UNCHANGED <<selection, data_cache, image_cache, images_dict, filtered_df,
                   rendered, uncaught, load_runs, image_runs, convVars, matchVars, filterVars>>

\* line 405, load_data() running its body (lines 84-135): the download and the
\* read succeed on some coins.csv, or an exception reaches the except branch
LoadDataMiss ==
    /\ pc = "navigated"
    /\ ~data_cache.has
    /\ load_runs < MaxRuns
    /\ \E failed \in BOOLEAN, csv \in CsvFiles :
         LET value == IF failed THEN EmptyDataFrame ELSE ReadCsv(csv)
             shown == IF failed THEN {LoadError, LoadInfo} ELSE {}
         IN  /\ failed => csv = <<>>
             /\ data_cache' = CacheStore(value, shown)
             /\ coins_df' = value
             /\ messages' = messages \cup shown
    /\ load_runs' = load_runs + 1
    /\ calls' = Append(calls, "load_data")
    /\ pc' = "loaded"
    /\ UNCHANGED <<selection, image_cache, images_dict, filtered_df, rendered,
                   uncaught, hits, image_runs, convVars, matchVars, filterVars>>

\* line 406, load_images() served by st.cache_data
LoadImagesHit ==
    /\ pc = "loaded"
    /\ image_cache.has
    /\ images_dict' = image_cache.value
    /\ messages' = messages \cup image_cache.msgs
    /\ hits' = hits \cup {"load_images"}
    /\ calls' = Append(calls, "load_images")
    /\ pc' = "indexed"
    /\ UNCHANGED <<selection, data_cache, image_cache, coins_df, filtered_df,
                   rendered, uncaught, load_runs, image_runs, convVars, matchVars, filterVars>>

\* line 406, load_images() running its body (lines 140-150): the download
\* fails, or match_images scans what it left (a folder, or none)
LoadImagesMiss ==
    /\ pc = "loaded"
    /\ ~image_cache.has
    /\ image_runs < MaxRuns
    /\ \E failed \in BOOLEAN, exists \in BOOLEAN, files \in DownloadedListings :
         LET res == IF failed THEN [dict |-> EmptyDict, msgs |-> {ImageError}]
                    ELSE match_images(exists, images_folder, files)
         IN  /\ (failed \/ ~exists) => files = <<>>
             /\ failed => exists
             /\ image_cache' = CacheStore(res.dict, res.msgs)
             /\ images_dict' = res.dict
             /\ messages' = messages \cup res.msgs
    /\ image_runs' = image_runs + 1
    /\ calls' = Append(calls, "load_images")
    /\ pc' = "indexed"
    /\ UNCHANGED <<selection, data_cache, coins_df, filtered_df, rendered,
                   uncaught, hits, load_runs, convVars, matchVars, filterVars>>

\* line 407, sidebar_filters(coins_df), the widgets returning any value they can
FilterStep ==
    /\ pc = "indexed"
    /\ \E crit \in WidgetChoices(coins_df) :
         LET out == sidebar_filters(coins_df, crit)
         IN  /\ filtered_df' = out.rows
             /\ uncaught' = IF out.status = "ok" THEN "none" ELSE out.status
             /\ pc' = IF out.status = "ok" THEN "filtered" ELSE "crashed"
    /\ calls' = Append(calls, "sidebar_filters")
    /\ UNCHANGED <<selection, data_cache, image_cache, coins_df, images_dict, messages,
                   rendered, hits, load_runs, image_runs, convVars, matchVars, filterVars>>

\* the end of a pass: what the page call left, and what was shown
Finish(res, shown, called) ==
    /\ rendered' = res.rendered
    /\ uncaught' = res.uncaught
    /\ messages' = messages \cup shown
    /\ calls' = calls \o called
    /\ pc' = IF res.uncaught = "none" THEN "done" ELSE "crashed"
    /\ UNCHANGED <<selection, data_cache, image_cache, coins_df, images_dict, filtered_df,
                   hits, load_runs, image_runs, convVars, matchVars, filterVars>>

Warned == [rendered |-> "warning", uncaught |-> "none"]

Dispatch_noEmptyCheck ==
    /\ pc = "filtered"
    /\ IF selection = "Home" THEN Finish(CallPage(selection, 0), {}, <<PageFunction(selection)>>)
       ELSE IF selection \in DataViews
       THEN Finish(CallPage(selection, 2), {}, <<PageFunction(selection)>>)
       ELSE Finish(CallPage("Kaggle Connection Test", 0), {}, <<"test_kaggle_connection">>)

\* lines 410-420
Dispatch ==
    /\ pc = "filtered"
    /\ IF selection = "Home" THEN Finish(CallPage(selection, 0), {}, <<PageFunction(selection)>>)
       ELSE IF selection \in DataViews
       THEN IF filtered_df # EmptyDataFrame
            THEN Finish(CallPage(selection, 2), {}, <<PageFunction(selection)>>)
            ELSE Finish(Warned,
                        {NoDataWarning} \cup
                          (IF selection = "Coin Catalog" THEN {ImageDirWarning} ELSE {}),
                        <<>>)
       ELSE Finish(CallPage("Kaggle Connection Test", 0), {}, <<"test_kaggle_connection">>)

Pending == [type |-> "pending", val |-> <<>>]
ConvIdle == date_of_issue = PyStr(<<>>) /\ converted = Pending
MatchIdle == folder_exists = TRUE /\ listing = <<>> /\ scan_pos = 0 /\ match_pc = "idle"
NoOutcome == [status |-> "none", rows |-> EmptyDataFrame]
FilterIdle == input_df = EmptyDataFrame /\ criteria = NoCriteria /\ outcome = NoOutcome

Init == ConvIdle /\ MatchIdle /\ FilterIdle /\ PassInit /\ images_dict = EmptyDict /\ messages = {}

Next ==
    \/ StartPass
    \/ LoadDataHit
    \/ LoadDataMiss
    \/ LoadImagesHit
    \/ LoadImagesMiss
    \/ FilterStep
    \/ Dispatch

Spec == Init /\ [][Next]_vars

(***************************************************************************)
(* sidebar_filters on its own: a frame load_data can return, and every     *)
(* value the widgets can take on it.                                       *)
(***************************************************************************)
Frames == {ReadCsv(csv) : csv \in CsvFiles}

FilterInit ==
    /\ input_df \in Frames
    /\ criteria = NoCriteria
    /\ outcome = NoOutcome

CallFilters ==
    /\ outcome = NoOutcome
    /\ \E crit \in WidgetChoices(input_df) :
         /\ criteria' = crit
         /\ outcome' = sidebar_filters(input_df, crit)
    /\ UNCHANGED <<input_df, convVars, matchVars, passVars, images_dict, messages>>

InitFilter == ConvIdle /\ MatchIdle /\ FilterInit /\ PassInit /\ images_dict = EmptyDict /\ messages = {}
SpecFilter == InitFilter /\ [][CallFilters]_vars

(***************************************************************************)
(* convert_to_gregorian on its own: every short text over Alphabet, the    *)
(* texts and the integers of SampleYears.                                  *)
(***************************************************************************)
Alphabet == {"0", "1", "2", "-", " ", "x"}
Texts == UNION {[1..n -> Alphabet] : n \in 0..MaxLen}
SampleYears == {-12, -1, 0, 1, 12, 580, 1100, 1201, 1202, 1203, 1250, 2021}

\* str(n)
RECURSIVE DecimalOfNat(_)
DecimalOfNat(n) ==
    IF n < 10 THEN <<Digits[n + 1]>> ELSE DecimalOfNat(n \div 10) \o <<Digits[(n % 10) + 1]>>
Decimal(n) == IF n < 0 THEN <<"-">> \o DecimalOfNat(0 - n) ELSE DecimalOfNat(n)

DateValues ==
    {PyStr(t) : t \in Texts} \cup {PyStr(Unknown)}
      \cup {PyStr(Decimal(n)) : n \in SampleYears} \cup {PyInt(n) : n \in SampleYears}
      \cup {PyFloat(n) : n \in SampleYears}

ConvInit == date_of_issue \in DateValues /\ converted = Pending

\* line 129: the function applied to one value of the column
Convert ==
    /\ converted = Pending
    /\ converted' = convert_to_gregorian(date_of_issue)
    /\ UNCHANGED <<date_of_issue, matchVars, passVars, filterVars, images_dict, messages>>

InitConv == ConvInit /\ MatchIdle /\ FilterIdle /\ PassInit /\ images_dict = EmptyDict /\ messages = {}
SpecConv == InitConv /\ [][Convert]_vars

(***************************************************************************)
(* match_images on its own, one file of the directory at a time.           *)
(***************************************************************************)
MatchInit ==
    /\ folder_exists \in BOOLEAN
    /\ listing \in Listings
    /\ ~folder_exists => listing = <<>>
    /\ scan_pos = 0
    /\ match_pc = "call"
    /\ images_dict = EmptyDict
    /\ messages = {}

\* lines 153-158
MatchOpen ==
    /\ match_pc = "call"
    /\ images_dict' = EmptyDict
    /\ IF folder_exists
       THEN match_pc' = "scan" /\ messages' = messages
       ELSE match_pc' = "returned" /\ messages' = messages \cup {"Error: Image folder not found"}
    /\ UNCHANGED <<folder_exists, listing, scan_pos, convVars, passVars, filterVars>>

\* lines 159-169, for the next file of os.listdir
MatchFile ==
    /\ match_pc = "scan"
    /\ scan_pos < Len(listing)
    /\ images_dict' = MatchEntry(images_dict, images_folder, listing[scan_pos + 1])
    /\ scan_pos' = scan_pos + 1
    /\ UNCHANGED <<folder_exists, listing, match_pc, messages, convVars, passVars, filterVars>>

\* line 170
MatchReturn ==
    /\ match_pc = "scan"
    /\ scan_pos = Len(listing)
    /\ match_pc' = "returned"
    /\ UNCHANGED <<folder_exists, listing, scan_pos, images_dict, messages, convVars,
                   passVars, filterVars>>

InitMatch == ConvIdle /\ MatchInit /\ FilterIdle /\ PassInit
NextMatch == MatchOpen \/ MatchFile \/ MatchReturn
SpecMatch == InitMatch /\ [][NextMatch]_vars

(***************************************************************************)
(* Properties of match_images (SpecMatch).                                 *)
(***************************************************************************)
Id123 == <<"1", "2", ".", "3">>
Sides == {"front", "back"}
JustScanned(f) == scan_pos >= 1 /\ listing[scan_pos] = f
StoredAs(f, side) ==
    /\ Id123 \in DOMAIN images_dict
    /\ images_dict[Id123][side] = join(images_folder, f)

\* C1, as amended: right after match_images handles "12.3 Foo re.webp" or
\* "12.3 Foo RE .webp" the file is the "back" path of Identifier "12.3"; right
\* after it handles "12.3 Foo.webp" or "12.3-Foo-re-back.webp" the file is the
\* "front" path of Identifier "12.3".
C1_Classification ==
    /\ JustScanned(ReFile) => StoredAs(ReFile, "back")
    /\ JustScanned(ReSpaceFile) => StoredAs(ReSpaceFile, "back")
    /\ JustScanned(FrontFile) => StoredAs(FrontFile, "front")
    /\ JustScanned(HyphenFile) => StoredAs(HyphenFile, "front")

\* C1 as stated: "12.3 Foo re.webp", "12.3 Foo RE .webp" and
\* "12.3-Foo-re-back.webp" are each stored as the "back" path of Identifier
\* "12.3", and "12.3 Foo.webp" as its "front" path.
C1_AsStated ==
    /\ JustScanned(ReFile) => StoredAs(ReFile, "back")
    /\ JustScanned(ReSpaceFile) => StoredAs(ReSpaceFile, "back")
    /\ JustScanned(HyphenFile) => StoredAs(HyphenFile, "back")
    /\ JustScanned(FrontFile) => StoredAs(FrontFile, "front")

C1_Witness ==
    /\ scan_pos >= 2
    /\ listing[scan_pos - 1] = ReSpaceFile
    /\ JustScanned(HyphenFile)
    /\ images_dict[Id123] = [front |-> join(images_folder, HyphenFile),
                             back |-> join(images_folder, ReSpaceFile)]

\* the files among the first n of the listing that carry Identifier id and are
\* classified to side
FilesFor(id, side, n) ==
    {i \in 1..n : /\ PatternMatch(listing[i]).matched
                  /\ PatternMatch(listing[i]).coin_no = id
                  /\ (IsBack(listing[i]) <=> side = "back")}

\* C9: at every point of the scan, and so when match_images returns, the keys
\* are the Identifiers of the matching files met so far, and for every key and
\* side the stored path is that of the last file met with that Identifier and
\* side, None when there is none: a later file overwrites an earlier one of
\* the same Identifier and side and leaves the other side as it was.
C9_LastWriteWins ==
    match_pc \in {"scan", "returned"} =>
      /\ DOMAIN images_dict =
           {PatternMatch(listing[i]).coin_no :
              i \in {j \in 1..scan_pos : PatternMatch(listing[j]).matched}}
      /\ \A id \in DOMAIN images_dict, side \in Sides :
           images_dict[id][side] =
             IF FilesFor(id, side, scan_pos) = {} THEN None
             ELSE join(images_folder, listing[Max(FilesFor(id, side, scan_pos))])

C9_Witness ==
    /\ match_pc = "returned"
    /\ listing = <<FrontFile, ReFile, ReSpaceFile>>
    /\ images_dict[Id123] = [front |-> join(images_folder, FrontFile),
                             back |-> join(images_folder, ReSpaceFile)]

(***************************************************************************)
(* Properties of convert_to_gregorian (SpecConv).                          *)
(***************************************************************************)
Expected(y) == IF y < 1202 THEN y + 622 ELSE y

\* C8: for the integer y, given as an int, as a whole float or as its decimal
\* text, the result is y + 622 when y < 1202 and y when y >= 1202 (1100 gives
\* 1722, 1250 gives 1250); for a text int() does not accept the result is the
\* string "Unknown".
C8_Conversion ==
    converted # Pending =>
      /\ \A y \in SampleYears :
           (date_of_issue \in {PyInt(y), PyFloat(y), PyStr(Decimal(y))})
             => converted = PyInt(Expected(y))
      /\ date_of_issue = PyInt(1100) => converted = PyInt(1722)
      /\ date_of_issue = PyInt(1250) => converted = PyInt(1250)
      /\ (date_of_issue.type = "str" /\ IntOfStr(date_of_issue.val).raises)
           => converted = PyStr(Unknown)
      /\ (date_of_issue.type = "str" /\ ~IntOfStr(date_of_issue.val).raises)
           => /\ converted.type = "int"
              /\ converted.val = Expected(IntOfStr(date_of_issue.val).val)

C8_Witness ==
    /\ date_of_issue = PyStr(<<"1", "2", "0", "1">>)
    /\ converted = PyInt(1823)

(***************************************************************************)
(* Properties of sidebar_filters (SpecFilter).                             *)
(***************************************************************************)
Called == outcome # NoOutcome

\* C2 as stated: whatever the Reign values of a non-empty record set,
\* sidebar_filters does not raise: Reign values without an en-dash or without
\* an integer before it are left out and the filter steps complete.
C2_AsStated == (Called /\ input_df # EmptyDataFrame) => outcome.status = "ok"

\* C4 as stated: with every widget at its default, the result of
\* sidebar_filters on a non-empty record set is that record set, same records,
\* same order.
C4_AsStated ==
    (Called /\ input_df # EmptyDataFrame /\ criteria = DefaultCriteria(input_df))
      => (outcome.status = "ok" /\ outcome.rows = input_df)

\* the four criteria of C5 on one record; the year bounds exist only when the
\* reign slider does
Satisfies(r, crit) ==
    /\ crit.ruler = "All" \/ r.Ruler = crit.ruler
    /\ "All" \in crit.metals \/ r.Metal \in crit.metals
    /\ crit.years # NoRange =>
         /\ HasDash(r.Reign)
         /\ ~StartYear(r.Reign).raises
         /\ crit.years[1] <= StartYear(r.Reign).val
         /\ StartYear(r.Reign).val <= crit.years[2]
    /\ crit.weight[1] <= r.Weight
    /\ r.Weight <= crit.weight[2]

\* C5 as stated: for every record set and every choice of criteria the result
\* is exactly the records that satisfy all four criteria, in their original
\* order.
C5_AsStated ==
    (Called /\ input_df # EmptyDataFrame) =>
      /\ outcome.status = "ok"
      /\ LET Keep(r) == Satisfies(r, criteria)
         IN  outcome.rows = SelectSeq(input_df, Keep)

(***************************************************************************)
(* Properties of the render pass (Spec).                                   *)
(***************************************************************************)
AfterLoad == {"loaded", "indexed", "filtered", "done", "crashed"}
AfterIndex == {"indexed", "filtered", "done", "crashed"}
AfterFilter == {"filtered", "done", "crashed"}

\* C3 as stated, for the passes whose load, index and filter steps completed:
\* the pass ends by rendering the selected view or a warning, the call main
\* makes being one the view function accepts.
C3_AsStated == uncaught # "TypeError"

C7_LoadedOnce ==
    [][/\ data_cache.has => (data_cache' = data_cache /\ load_runs' = load_runs)
       /\ image_cache.has => (image_cache' = image_cache /\ image_runs' = image_runs)
       /\ load_runs' <= 1
       /\ image_runs' <= 1
       /\ (pc = "navigated" /\ pc' = "loaded")
            => (data_cache'.has /\ coins_df' = data_cache'.value)
       /\ (pc = "loaded" /\ pc' = "indexed")
            => (image_cache'.has /\ images_dict' = image_cache'.value)]_vars

C7_Witness ==
    /\ pc = "indexed"
    /\ hits = {"load_data", "load_images"}
    /\ load_runs = 1
    /\ image_runs = 1
    /\ LoadError \in data_cache.msgs
    /\ ImageError \in image_cache.msgs
    /\ coins_df = data_cache.value
    /\ images_dict = image_cache.value

FirstThree == <<"load_data", "load_images", "sidebar_filters">>
PageFunctions == {PageFunction(p) : p \in Pages}
Dispatched == pc = "done" \/ (pc = "crashed" /\ uncaught = "TypeError")

\* C10: a page function is called only as the fourth call of a pass, after
\* load_data, load_images and sidebar_filters in that order, whatever the
\* selection; a data view is called only for a non-empty filtered_df; for a
\* data view and an empty filtered_df the pass shows the "no data" warning and
\* calls no data view.
C10_OrderAndGuard ==
    /\ \A i \in DOMAIN calls :
         calls[i] \in PageFunctions => (i = 4 /\ SubSeq(calls, 1, 3) = FirstThree)
    /\ Dispatched => (Len(calls) >= 3 /\ SubSeq(calls, 1, 3) = FirstThree)
    /\ \A i \in DOMAIN calls :
         calls[i] \in DataViewFunctions
           => (filtered_df # EmptyDataFrame /\ calls[i] = PageFunction(selection))
    /\ (Dispatched /\ selection \in DataViews /\ filtered_df = EmptyDataFrame)
         => /\ NoDataWarning \in messages
            /\ rendered = "warning"
            /\ \A i \in DOMAIN calls : calls[i] \notin DataViewFunctions
    /\ (Dispatched /\ selection \in DataViews /\ filtered_df # EmptyDataFrame)
         => /\ NoDataWarning \notin messages
            /\ calls = FirstThree \o <<PageFunction(selection)>>
    /\ (Dispatched /\ selection \notin DataViews)
         => calls = FirstThree \o <<PageFunction(selection)>>

C10_Witness ==
    /\ pc = "done"
    /\ selection = "Coin Catalog"
    /\ rendered = "Coin Catalog"
    /\ filtered_df # EmptyDataFrame
    /\ calls = FirstThree \o <<"display_coins_with_images">>

====
